---- MODULE Spec2Model ----
(***************************************************************************)
(* Easy Connection relay server: rendezvous by code, then relay.           *)
(* The model follows the WebSocket server of src/unnamed/part_000 (the     *)
(* same handlers appear in src/server.js, lines 105-338).                  *)
(*                                                                         *)
(* Node runs every handler to completion on one thread, so each handler    *)
(* is one atomic action.  The transport (library `ws`) is modelled by the  *)
(* readyState of each socket, the set wss.clients and the 'close' event    *)
(* that the library emits once, some time after the socket stopped being   *)
(* OPEN.  A send on a socket that is not OPEN is dropped.                  *)
(***************************************************************************)
EXTENDS Integers, Sequences, FiniteSets, TLC

\* ------------------------------------------------------------------ bounds
\* sockets the server accepts, and events (messages, pongs, closes, sweeps)
\* it processes, in one run
MaxConns == 3
MaxEvents == 8

Conns == 1..MaxConns

\* codes a client may put in a message: two well-formed ones, one of the
\* wrong length and the empty string (falsy in JavaScript)
ValidCodes == {"AAAAAAAAA", "BBBBBBBBB"}
MsgCodes   == ValidCodes \cup {"SHORT", ""}

\* opaque relay payloads
Payloads == {"p1", "p2"}

\* JavaScript null (for string fields), and the undefined a Map returns for a
\* missing key whose values are sockets
Null == "<null>"
NoWs == 0

\* the length registerHost requires of a code
CodeLength == 9

\* identity each endpoint puts in its own messages
DeviceIdOf(w)   == "id-" \o ToString(w)
DeviceNameOf(w) == "name-" \o ToString(w)

\* ------------------------------------------------------------------- state
VARIABLES
    waitingHosts,   \* Map code -> ws
    sessions,       \* Map code -> [host: ws, client: ws]
    readyState,     \* per socket: "NONE" (not yet accepted), "OPEN",
                    \*   "CLOSING" (no longer OPEN, 'close' not yet emitted),
                    \*   "CLOSED" ('close' emitted)
    isAlive,        \* ws.isAlive
    sessionCode,    \* ws.sessionCode
    role,           \* ws.role
    deviceId,       \* ws.deviceId
    deviceName,     \* ws.deviceName
    sent,           \* frames sent by the handler that ran last, in order
    last,           \* the event the last handler processed
    tornDown,       \* history: handleDisconnect(ws) has been invoked for ws
    pairedWith,     \* history: the socket ws was paired with by the latest
                    \*   successful connect_to_host involving ws (0: none)
    events,         \* history: number of events processed so far
    probed,         \* history: a sweep has probed ws and no pong has
                    \*   arrived from it since
    peerGone        \* history: ws has been sent peer_disconnected since it
                    \*   was last paired

vars == <<waitingHosts, sessions, readyState, isAlive, sessionCode, role,
          deviceId, deviceName, sent, last, tornDown, pairedWith, events,
          probed, peerGone>>

\* the empty Map
EmptyMap == <<>>

\* Map.prototype.has / get / set / delete
Has(m, k)    == k \in DOMAIN m
Get(m, k)    == IF k \in DOMAIN m THEN m[k] ELSE NoWs
Set(m, k, v) == [c \in (DOMAIN m) \cup {k} |-> IF c = k THEN v ELSE m[c]]
Delete(m, k) == [c \in (DOMAIN m) \ {k} |-> m[c]]

\* ws.readyState === WebSocket.OPEN
IsOpen(rs, w) == rs[w] = "OPEN"

\* wss.clients: sockets accepted whose 'close' has not been emitted yet
Clients(rs) == {w \in Conns : rs[w] \in {"OPEN", "CLOSING"}}

\* ws.send(JSON.stringify(frame)): the frame reaches the wire only if the
\* socket is OPEN
Send(rs, out, w, frame) ==
    IF IsOpen(rs, w) THEN Append(out, [to |-> w, frame |-> frame]) ELSE out

Init ==
    /\ waitingHosts = EmptyMap
    /\ sessions = EmptyMap
    /\ readyState = [w \in Conns |-> "NONE"]
    /\ isAlive = [w \in Conns |-> FALSE]
    /\ sessionCode = [w \in Conns |-> Null]
    /\ role = [w \in Conns |-> Null]
    /\ deviceId = [w \in Conns |-> Null]
    /\ deviceName = [w \in Conns |-> Null]
    /\ sent = <<>>
    /\ last = [op |-> "init"]
    /\ tornDown = [w \in Conns |-> FALSE]
    /\ pairedWith = [w \in Conns |-> 0]
    /\ events = 0
    /\ probed = [w \in Conns |-> FALSE]
    /\ peerGone = [w \in Conns |-> FALSE]

\* the event loop takes the next event
Tick == events < MaxEvents /\ events' = events + 1

\* wss.on('connection'): sockets are numbered in the order they are accepted
Connection(w) ==
    /\ Tick
    /\ readyState[w] = "NONE"
    /\ \A v \in Conns : v < w => readyState[v] # "NONE"
    /\ readyState' = [readyState EXCEPT ![w] = "OPEN"]
    /\ isAlive' = [isAlive EXCEPT ![w] = TRUE]
    /\ sessionCode' = [sessionCode EXCEPT ![w] = Null]
    /\ role' = [role EXCEPT ![w] = Null]
    /\ sent' = <<>>
    /\ last' = [op |-> "connection", ws |-> w]
    /\ probed' = [probed EXCEPT ![w] = FALSE]
    /\ UNCHANGED <<waitingHosts, sessions, deviceId, deviceName, tornDown,
                   pairedWith, peerGone>>

\* code is falsy or not 9 characters long
InvalidCode(code) == code = "" \/ Len(code) # CodeLength

\* registerHost's test "waitingHosts.has(code)".  CodeInUseNever is the
\* handler with the test left out.
CodeInUseNever(wh, code) == FALSE
CodeInUse(wh, code) == Has(wh, code)

\* registerHost(ws, message)
registerHost(w, code) ==
    /\ Tick
    /\ IsOpen(readyState, w)
    /\ last' = [op |-> "register_host", ws |-> w, code |-> code]
    /\ IF InvalidCode(code)
       THEN /\ sent' = Send(readyState, <<>>, w,
                            [type |-> "error", message |-> "Codigo invalido"])
            /\ UNCHANGED <<waitingHosts, sessionCode, role, deviceId,
                           deviceName>>
       ELSE IF CodeInUse(waitingHosts, code)
       THEN /\ sent' = Send(readyState, <<>>, w,
                            [type |-> "error", message |-> "Codigo en uso"])
            /\ UNCHANGED <<waitingHosts, sessionCode, role, deviceId,
                           deviceName>>
       ELSE /\ sessionCode' = [sessionCode EXCEPT ![w] = code]
            /\ role' = [role EXCEPT ![w] = "host"]
            /\ deviceId' = [deviceId EXCEPT ![w] = DeviceIdOf(w)]
            /\ deviceName' = [deviceName EXCEPT ![w] = DeviceNameOf(w)]
            /\ waitingHosts' = Set(waitingHosts, code, w)
            /\ sent' = Send(readyState, <<>>, w,
                            [type |-> "registered", code |-> code])
    /\ UNCHANGED <<sessions, readyState, isAlive, tornDown, pairedWith,
                   probed, peerGone>>

\* connectToHost's test "!hostWs || hostWs.readyState !== WebSocket.OPEN".
\* HostNotFoundNoReadyState is the test without its readyState half.
HostNotFoundNoReadyState(rs, hostWs) == hostWs = NoWs
HostNotFound(rs, hostWs) == hostWs = NoWs \/ ~IsOpen(rs, hostWs)

\* the session object connectToHost stores: { host: hostWs, client: ws }.
\* NewSessionSwapped stores the two sockets the other way round.
NewSessionSwapped(hostWs, w) == [host |-> w, client |-> hostWs]
NewSession(hostWs, w) == [host |-> hostWs, client |-> w]

\* connectToHost(ws, message)
connectToHost(w, code) ==
    /\ Tick
    /\ IsOpen(readyState, w)
    /\ last' = [op |-> "connect_to_host", ws |-> w, code |-> code]
    /\ LET hostWs == Get(waitingHosts, code) IN
       IF HostNotFound(readyState, hostWs)
       THEN /\ sent' = Send(readyState, <<>>, w,
                            [type |-> "connection_failed"])
            /\ UNCHANGED <<waitingHosts, sessions, sessionCode, role,
                           deviceId, deviceName, pairedWith, peerGone>>
       ELSE /\ sessionCode' = [sessionCode EXCEPT ![w] = code]
            /\ role' = [role EXCEPT ![w] = "client"]
            /\ deviceId' = [deviceId EXCEPT ![w] = DeviceIdOf(w)]
            /\ deviceName' = [deviceName EXCEPT ![w] = DeviceNameOf(w)]
            /\ sessions' = Set(sessions, code, NewSession(hostWs, w))
            /\ waitingHosts' = Delete(waitingHosts, code)
            /\ sent' = Send(readyState,
                         Send(readyState, <<>>, hostWs,
                              [type |-> "peer_connected",
                               peer_id |-> DeviceIdOf(w),
                               peer_name |-> DeviceNameOf(w)]),
                         w,
                         [type |-> "connected_to_host",
                          host_id |-> deviceId'[hostWs],
                          host_name |-> deviceName'[hostWs]])
            /\ pairedWith' = [pairedWith EXCEPT ![w] = hostWs, ![hostWs] = w]
            /\ peerGone' = [peerGone EXCEPT ![w] = FALSE, ![hostWs] = FALSE]
    /\ UNCHANGED <<readyState, isAlive, tornDown, probed>>

\* the socket relayData picks as target: session.client for a sender whose
\* role is 'host', session.host otherwise
RelayTarget(session, senderRole) ==
    IF senderRole = "host" THEN session.client ELSE session.host

\* relayData(ws, message)
relayData(w, data) ==
    /\ Tick
    /\ IsOpen(readyState, w)
    /\ last' = [op |-> "relay", ws |-> w, data |-> data]
    /\ IF ~Has(sessions, sessionCode[w])
       THEN sent' = <<>>
       ELSE sent' = Send(readyState, <<>>,
                         RelayTarget(sessions[sessionCode[w]], role[w]),
                         [type |-> "relayed", from |-> role[w], data |-> data])
    /\ UNCHANGED <<waitingHosts, sessions, readyState, isAlive, sessionCode,
                   role, deviceId, deviceName, tornDown, pairedWith, probed,
                   peerGone>>

\* handleMessage, case 'ping'
ping(w) ==
    /\ Tick
    /\ IsOpen(readyState, w)
    /\ last' = [op |-> "ping", ws |-> w]
    /\ sent' = Send(readyState, <<>>, w, [type |-> "pong"])
    /\ UNCHANGED <<waitingHosts, sessions, readyState, isAlive, sessionCode,
                   role, deviceId, deviceName, tornDown, pairedWith, probed,
                   peerGone>>

\* a frame that does not parse, or a message of a type handleMessage has no
\* case for: logged, nothing else
ignoredMessage(w) ==
    /\ Tick
    /\ IsOpen(readyState, w)
    /\ last' = [op |-> "ignored", ws |-> w]
    /\ sent' = <<>>
    /\ UNCHANGED <<waitingHosts, sessions, readyState, isAlive, sessionCode,
                   role, deviceId, deviceName, tornDown, pairedWith, probed,
                   peerGone>>

\* ws.on('pong')
pong(w) ==
    /\ Tick
    /\ IsOpen(readyState, w)
    /\ isAlive' = [isAlive EXCEPT ![w] = TRUE]
    /\ probed' = [probed EXCEPT ![w] = FALSE]
    /\ last' = [op |-> "pong", ws |-> w]
    /\ sent' = <<>>
    /\ UNCHANGED <<waitingHosts, sessions, readyState, sessionCode, role,
                   deviceId, deviceName, tornDown, pairedWith, peerGone>>

\* the transport fails or the endpoint closes it: the socket stops being
\* OPEN; the library emits 'close' later
transportClose(w) ==
    /\ Tick
    /\ IsOpen(readyState, w)
    /\ readyState' = [readyState EXCEPT ![w] = "CLOSING"]
    /\ last' = [op |-> "transport_close", ws |-> w]
    /\ sent' = <<>>
    /\ UNCHANGED <<waitingHosts, sessions, isAlive, sessionCode, role,
                   deviceId, deviceName, tornDown, pairedWith, probed,
                   peerGone>>

\* the sockets a peer_disconnected of out is addressed to
Notified(out) ==
    {out[i].to : i \in {j \in 1..Len(out) :
                            out[j].frame.type = "peer_disconnected"}}

\* the sweep's test "!ws.isAlive".  IsDeadAlways is the sweep that evicts
\* whatever it visits.
IsDeadAlways(alive, w) == TRUE
IsDead(alive, w) == ~alive[w]

\* handleDisconnect(ws), as a function of the registry: the new maps and the
\* frames appended to out
handleDisconnect(wh, ss, rs, out, w) ==
    LET code == sessionCode[w] IN
    IF code = Null \/ code = ""
    THEN [waitingHosts |-> wh, sessions |-> ss, out |-> out]
    ELSE IF Get(wh, code) = w
    THEN [waitingHosts |-> Delete(wh, code), sessions |-> ss, out |-> out]
    ELSE IF ~Has(ss, code)
    THEN [waitingHosts |-> wh, sessions |-> ss, out |-> out]
    ELSE [waitingHosts |-> wh,
          sessions |-> Delete(ss, code),
          out |-> Send(rs, out, RelayTarget(ss[code], role[w]),
                       [type |-> "peer_disconnected"])]

\* ws.on('close')
close(w) ==
    /\ Tick
    /\ readyState[w] = "CLOSING"
    /\ LET r == handleDisconnect(waitingHosts, sessions, readyState, <<>>, w) IN
       /\ waitingHosts' = r.waitingHosts
       /\ sessions' = r.sessions
       /\ sent' = r.out
       /\ peerGone' = [v \in Conns |-> peerGone[v] \/ v \in Notified(r.out)]
    /\ readyState' = [readyState EXCEPT ![w] = "CLOSED"]
    /\ tornDown' = [tornDown EXCEPT ![w] = TRUE]
    /\ last' = [op |-> "close", ws |-> w]
    /\ UNCHANGED <<isAlive, sessionCode, role, deviceId, deviceName,
                   pairedWith, probed>>

\* the body of the sweep's forEach for one socket, on the sweep's running
\* state s
SweepVisit(s, w) ==
    IF IsDead(s.isAlive, w)
    THEN LET r == handleDisconnect(s.waitingHosts, s.sessions, s.readyState,
                                   s.out, w) IN
         [s EXCEPT !.waitingHosts = r.waitingHosts,
                   !.sessions = r.sessions,
                   !.out = r.out,
                   !.tornDown = [@ EXCEPT ![w] = TRUE],
                   !.evicted = @ \cup {w},
                   !.readyState = [@ EXCEPT ![w] = "CLOSING"]]
    ELSE [s EXCEPT !.isAlive = [@ EXCEPT ![w] = FALSE],
                   !.probed = [@ EXCEPT ![w] = TRUE],
                   !.out = Send(s.readyState, @, w, [type |-> "ws.ping"])]

\* wss.clients.forEach from socket w on, in insertion order
RECURSIVE SweepFrom(_, _)
SweepFrom(s, w) ==
    IF w > MaxConns THEN s
    ELSE IF w \in Clients(s.readyState)
    THEN SweepFrom(SweepVisit(s, w), w + 1)
    ELSE SweepFrom(s, w + 1)

\* the setInterval callback of pingInterval
pingInterval ==
    /\ Tick
    /\ Clients(readyState) # {}
    /\ LET r == SweepFrom([waitingHosts |-> waitingHosts,
                           sessions |-> sessions,
                           readyState |-> readyState,
                           isAlive |-> isAlive,
                           tornDown |-> tornDown,
                           probed |-> probed,
                           evicted |-> {},
                           out |-> <<>>], 1) IN
       /\ waitingHosts' = r.waitingHosts
       /\ sessions' = r.sessions
       /\ readyState' = r.readyState
       /\ isAlive' = r.isAlive
       /\ tornDown' = r.tornDown
       /\ probed' = r.probed
       /\ sent' = r.out
       /\ peerGone' = [v \in Conns |-> peerGone[v] \/ v \in Notified(r.out)]
       /\ last' = [op |-> "sweep", evicted |-> r.evicted]
    /\ UNCHANGED <<sessionCode, role, deviceId, deviceName, pairedWith>>

Next ==
    \/ \E w \in Conns : Connection(w)
    \/ \E w \in Conns, code \in MsgCodes : registerHost(w, code)
    \/ \E w \in Conns, code \in MsgCodes : connectToHost(w, code)
    \/ \E w \in Conns, data \in Payloads : relayData(w, data)
    \/ \E w \in Conns : ping(w)
    \/ \E w \in Conns : ignoredMessage(w)
    \/ \E w \in Conns : pong(w)
    \/ \E w \in Conns : transportClose(w)
    \/ \E w \in Conns : close(w)
    \/ pingInterval

Spec == Init /\ [][Next]_vars

\* ------------------------------------------- src/server.js, inline handlers
\* wss.on('connection') of the inline server: the same three fields are set
inlineConnection(w) == Connection(w)

\* ws.on('message'), branch 'register_host': no test of the code's shape
inlineRegister(w, code) ==
    /\ Tick
    /\ IsOpen(readyState, w)
    /\ last' = [op |-> "register_host", ws |-> w, code |-> code]
    /\ IF Has(waitingHosts, code)
       THEN /\ sent' = Send(readyState, <<>>, w,
                            [type |-> "error", message |-> "Codigo en uso"])
            /\ UNCHANGED <<waitingHosts, sessionCode, role, deviceId,
                           deviceName>>
       ELSE /\ sessionCode' = [sessionCode EXCEPT ![w] = code]
            /\ role' = [role EXCEPT ![w] = "host"]
            /\ deviceId' = [deviceId EXCEPT ![w] = DeviceIdOf(w)]
            /\ deviceName' = [deviceName EXCEPT ![w] = DeviceNameOf(w)]
            /\ waitingHosts' = Set(waitingHosts, code, w)
            /\ sent' = Send(readyState, <<>>, w,
                            [type |-> "registered", code |-> code])
    /\ UNCHANGED <<sessions, readyState, isAlive, tornDown, pairedWith,
                   probed, peerGone>>

\* ws.on('message'), branch 'connect_to_host'
inlineConnect(w, code) == connectToHost(w, code)

\* ws.on('message'), branch 'ping'
inlinePing(w) == ping(w)

\* ws.on('message'): a frame that does not parse or a type with no branch,
\* 'relay' included
inlineIgnored(w) == ignoredMessage(w)

\* ws.on('pong') of the inline server
inlinePong(w) == pong(w)

\* the body of the inline ws.on('close'): the waiting entry is removed when
\* it is this socket, and the session lookup follows in every case
inlineTeardown(wh, ss, rs, out, w) ==
    LET code == sessionCode[w]
        wh1  == IF Get(wh, code) = w THEN Delete(wh, code) ELSE wh
    IN
    IF code = Null \/ code = ""
    THEN [waitingHosts |-> wh, sessions |-> ss, out |-> out]
    ELSE IF ~Has(ss, code)
    THEN [waitingHosts |-> wh1, sessions |-> ss, out |-> out]
    ELSE [waitingHosts |-> wh1,
          sessions |-> Delete(ss, code),
          out |-> Send(rs, out, RelayTarget(ss[code], role[w]),
                       [type |-> "peer_disconnected"])]

\* ws.on('close') of the inline server
inlineClose(w) ==
    /\ Tick
    /\ readyState[w] = "CLOSING"
    /\ LET r == inlineTeardown(waitingHosts, sessions, readyState, <<>>, w) IN
       /\ waitingHosts' = r.waitingHosts
       /\ sessions' = r.sessions
       /\ sent' = r.out
       /\ peerGone' = [v \in Conns |-> peerGone[v] \/ v \in Notified(r.out)]
    /\ readyState' = [readyState EXCEPT ![w] = "CLOSED"]
    /\ tornDown' = [tornDown EXCEPT ![w] = TRUE]
    /\ last' = [op |-> "close", ws |-> w]
    /\ UNCHANGED <<isAlive, sessionCode, role, deviceId, deviceName,
                   pairedWith, probed>>

\* the body of the inline sweep's forEach for one socket: a silent socket is
\* terminated and nothing else, its teardown is left to 'close'
inlineSweepVisit(s, w) ==
    IF IsDead(s.isAlive, w)
    THEN [s EXCEPT !.terminated = @ \cup {w},
                   !.readyState = [@ EXCEPT ![w] = "CLOSING"]]
    ELSE [s EXCEPT !.isAlive = [@ EXCEPT ![w] = FALSE],
                   !.probed = [@ EXCEPT ![w] = TRUE],
                   !.out = Send(s.readyState, @, w, [type |-> "ws.ping"])]

\* wss.clients.forEach of the inline sweep from socket w on
RECURSIVE inlineSweepFrom(_, _)
inlineSweepFrom(s, w) ==
    IF w > MaxConns THEN s
    ELSE IF w \in Clients(s.readyState)
    THEN inlineSweepFrom(inlineSweepVisit(s, w), w + 1)
    ELSE inlineSweepFrom(s, w + 1)

\* the setInterval callback of the inline server
inlineSweep ==
    /\ Tick
    /\ Clients(readyState) # {}
    /\ LET r == inlineSweepFrom([readyState |-> readyState,
                                 isAlive |-> isAlive,
                                 probed |-> probed,
                                 terminated |-> {},
                                 out |-> <<>>], 1) IN
       /\ readyState' = r.readyState
       /\ isAlive' = r.isAlive
       /\ probed' = r.probed
       /\ sent' = r.out
       /\ last' = [op |-> "sweep_terminate", terminated |-> r.terminated]
    /\ UNCHANGED <<waitingHosts, sessions, sessionCode, role, deviceId,
                   deviceName, tornDown, pairedWith, peerGone>>

NextInline ==
    \/ \E w \in Conns : inlineConnection(w)
    \/ \E w \in Conns, code \in MsgCodes : inlineRegister(w, code)
    \/ \E w \in Conns, code \in MsgCodes : inlineConnect(w, code)
    \/ \E w \in Conns : inlinePing(w)
    \/ \E w \in Conns : inlineIgnored(w)
    \/ \E w \in Conns : inlinePong(w)
    \/ \E w \in Conns : transportClose(w)
    \/ \E w \in Conns : inlineClose(w)
    \/ inlineSweep

SpecInline == Init /\ [][NextInline]_vars

\* ------------------------------------------------------- helpers of claims
\* w is the host or the client of session s
MemberOf(s, w) == s.host = w \/ s.client = w

\* the codes of the sessions w is a member of
SessionsOf(ss, w) == {c \in DOMAIN ss : MemberOf(ss[c], w)}

\* the sockets w shares a session with
PeersOf(ss, w) ==
    {v \in Conns : \E c \in SessionsOf(ss, w) :
        \/ ss[c].host = w /\ ss[c].client = v
        \/ ss[c].client = w /\ ss[c].host = v}

\* the frames of out that are protocol (JSON) frames, not transport probes
DataFrames(out) == {out[i] : i \in {j \in 1..Len(out) : out[j].frame.type # "ws.ping"}}

\* the event just processed tore socket w down: its 'close' handler ran, or
\* the sweep evicted it
IsTeardownOf(ev, w) ==
    \/ ev.op = "close" /\ ev.ws = w
    \/ ev.op = "sweep" /\ w \in ev.evicted

\* ------------------------------------------------------------------ claims

\* C1: every code is a key of at most one of waitingHosts and sessions, in
\* every reachable state.
C1_MutualExclusion == DOMAIN waitingHosts \cap DOMAIN sessions = {}

\* C2: a relay message sent by socket X is delivered only to the socket X was
\* paired with by a successful connect_to_host, never to a third socket and
\* never back to X.
C2_RelayIsolation ==
    last.op = "relay" =>
        \A i \in 1..Len(sent) :
            /\ sent[i].to = pairedWith[last.ws]
            /\ sent[i].to # last.ws

\* C3: the close or the eviction of a socket X sends at most one frame, a
\* peer_disconnected to a socket X shares a session with, removes only a
\* waiting entry or a session X is a member of, and leaves every other entry
\* as it was.
C3_FailureIsolation ==
    [][\A x \in Conns :
        (IsTeardownOf(last', x) /\ (last'.op = "sweep" => last'.evicted = {x}))
        =>
        /\ Cardinality(DataFrames(sent')) <= 1
        /\ \A f \in DataFrames(sent') :
               f.frame.type = "peer_disconnected" /\ f.to \in PeersOf(sessions, x)
        /\ \A c \in DOMAIN waitingHosts :
               \/ c \in DOMAIN waitingHosts' /\ waitingHosts'[c] = waitingHosts[c]
               \/ c \notin DOMAIN waitingHosts' /\ waitingHosts[c] = x
        /\ \A c \in DOMAIN sessions :
               \/ c \in DOMAIN sessions' /\ sessions'[c] = sessions[c]
               \/ c \notin DOMAIN sessions' /\ MemberOf(sessions[c], x)
        /\ DOMAIN waitingHosts' \subseteq DOMAIN waitingHosts
        /\ DOMAIN sessions' \subseteq DOMAIN sessions
      ]_vars

\* C4: once sessions[c] holds the pair (H, C) it stays exactly (H, C) until H
\* or C is torn down; no register_host or connect_to_host replaces or removes
\* the entry.
C4_OneSessionPerCode ==
    [][\A c \in DOMAIN sessions :
        (~IsTeardownOf(last', sessions[c].host) /\ ~IsTeardownOf(last', sessions[c].client))
        => (c \in DOMAIN sessions' /\ sessions'[c] = sessions[c])
      ]_vars

\* C5: once handleDisconnect has run for a socket, running it again for the
\* same socket changes neither map and sends no peer_disconnected.
C5_TeardownIdempotent ==
    [][\A x \in Conns :
        (/\ tornDown[x]
         /\ IsTeardownOf(last', x)
         /\ (last'.op = "sweep" => last'.evicted = {x}))
        =>
        /\ waitingHosts' = waitingHosts
        /\ sessions' = sessions
        /\ DataFrames(sent') = {}
      ]_vars

\* C6: in a session (H, C) with both sockets open, a relay from H with payload
\* P sends exactly one frame, relayed{from: "host", data: P}, to C and none to
\* H; a relay from C sends exactly relayed{from: "client", data: P} to H; the
\* maps are not modified.
C6_RelayDelivery ==
    [][last'.op = "relay" =>
        /\ waitingHosts' = waitingHosts
        /\ sessions' = sessions
        /\ \A c \in DOMAIN sessions :
            LET H == sessions[c].host
                C == sessions[c].client
            IN  (IsOpen(readyState, H) /\ IsOpen(readyState, C)) =>
                /\ last'.ws = H =>
                     sent' = <<[to |-> C,
                                frame |-> [type |-> "relayed", from |-> "host",
                                           data |-> last'.data]]>>
                /\ last'.ws = C =>
                     sent' = <<[to |-> H,
                                frame |-> [type |-> "relayed", from |-> "client",
                                           data |-> last'.data]]>>
      ]_vars

\* C7: a connect_to_host(c) from C while waitingHosts[c] is an open socket H
\* removes c from waitingHosts, sets sessions[c] = (host H, client C), binds C
\* to role client with sessionCode c, and sends exactly two frames:
\* peer_connected with C's id and name to H, connected_to_host with H's id and
\* name to C.
C7_SuccessfulPairing ==
    [][(/\ last'.op = "connect_to_host"
        /\ Has(waitingHosts, last'.code)
        /\ IsOpen(readyState, waitingHosts[last'.code]))
       =>
       LET c == last'.code
           C == last'.ws
           H == waitingHosts[c]
       IN  /\ ~Has(waitingHosts', c)
           /\ Has(sessions', c)
           /\ sessions'[c] = [host |-> H, client |-> C]
           /\ role'[C] = "client"
           /\ sessionCode'[C] = c
           /\ Len(sent') = 2
           /\ \E i, j \in 1..2 :
                /\ i # j
                /\ sent'[i] = [to |-> H,
                               frame |-> [type |-> "peer_connected",
                                          peer_id |-> DeviceIdOf(C),
                                          peer_name |-> DeviceNameOf(C)]]
                /\ sent'[j] = [to |-> C,
                               frame |-> [type |-> "connected_to_host",
                                          host_id |-> DeviceIdOf(H),
                                          host_name |-> DeviceNameOf(H)]]
      ]_vars

\* a pairing of two different sockets has just been made
C7_Witness ==
    /\ last.op = "connect_to_host"
    /\ Has(sessions, last.code)
    /\ sessions[last.code].client = last.ws
    /\ sessions[last.code].host # last.ws
    /\ Len(sent) = 2
    /\ sent[1].frame.type = "peer_connected"
    /\ sent[1].to = sessions[last.code].host
    /\ sent[2].frame.type = "connected_to_host"
    /\ sent[2].to = last.ws

\* C8: while socket A is the waiting host under code c, a register_host with c
\* from a different socket B gets an error reply and changes nothing:
\* waitingHosts[c] is still A, sessions is unchanged, B's role and sessionCode
\* are what they were (null for an unbound B) and B stays open.
C8_DuplicateRegistrationRejected ==
    [][(/\ last'.op = "register_host"
        /\ Has(waitingHosts, last'.code)
        /\ waitingHosts[last'.code] # last'.ws)
       =>
       LET B == last'.ws IN
           /\ sent' = <<[to |-> B,
                         frame |-> [type |-> "error",
                                    message |-> "Codigo en uso"]]>>
           /\ waitingHosts' = waitingHosts
           /\ sessions' = sessions
           /\ role'[B] = role[B]
           /\ sessionCode'[B] = sessionCode[B]
           /\ IsOpen(readyState', B)
      ]_vars

\* an unbound socket has just been refused a code another socket waits under
C8_Witness ==
    /\ last.op = "register_host"
    /\ Has(waitingHosts, last.code)
    /\ waitingHosts[last.code] # last.ws
    /\ Len(sent) = 1
    /\ sent[1].frame.type = "error"
    /\ sent[1].to = last.ws
    /\ role[last.ws] = Null
    /\ sessionCode[last.ws] = Null

\* C9: a connect_to_host(c) while waitingHosts has no entry for c, or the
\* entry's socket is not open, replies connection_failed to the requester,
\* creates no session, changes neither map and leaves the requester's role and
\* sessionCode as they were.
C9_FailedConnectMutatesNothing ==
    [][(/\ last'.op = "connect_to_host"
        /\ \/ ~Has(waitingHosts, last'.code)
           \/ ~IsOpen(readyState, waitingHosts[last'.code]))
       =>
       LET C == last'.ws IN
           /\ sent' = <<[to |-> C, frame |-> [type |-> "connection_failed"]]>>
           /\ waitingHosts' = waitingHosts
           /\ sessions' = sessions
           /\ role'[C] = role[C]
           /\ sessionCode'[C] = sessionCode[C]
      ]_vars

\* an unbound socket has just been refused a code whose waiting host is
\* closed but not yet torn down
C9_Witness ==
    /\ last.op = "connect_to_host"
    /\ Has(waitingHosts, last.code)
    /\ ~IsOpen(readyState, waitingHosts[last.code])
    /\ ~Has(sessions, last.code)
    /\ Len(sent) = 1
    /\ sent[1].frame.type = "connection_failed"
    /\ role[last.ws] = Null
    /\ sessionCode[last.ws] = Null

\* C10: a relay from a socket that is not a member of any session sends no
\* frame and changes neither map.
C10_RelayWithoutSessionIsNoOp ==
    [][(last'.op = "relay" /\ SessionsOf(sessions, last'.ws) = {})
       =>
       /\ sent' = <<>>
       /\ waitingHosts' = waitingHosts
       /\ sessions' = sessions
      ]_vars

\* the one frame peer_disconnected, addressed to socket w
PeerDisconnectedTo(w) == [to |-> w, frame |-> [type |-> "peer_disconnected"]]

\* socket w appears in no entry of the two maps
InNoEntry(wh, ss, w) ==
    /\ \A c \in DOMAIN wh : wh[c] # w
    /\ \A c \in DOMAIN ss : ~MemberOf(ss[c], w)

\* C11: when the host of the session under code c closes its transport, the
\* client, if open, is sent exactly one peer_disconnected, c is removed from
\* sessions, the host is not left as the waiting host of c, and a
\* connect_to_host with a code nobody waits under gets connection_failed.
C11_HostDisconnectEndsSession ==
    [][/\ \A c \in DOMAIN sessions :
            (last'.op = "close" /\ last'.ws = sessions[c].host) =>
                /\ c \notin DOMAIN sessions'
                /\ sent' = IF IsOpen(readyState, sessions[c].client)
                           THEN <<PeerDisconnectedTo(sessions[c].client)>>
                           ELSE <<>>
                /\ Get(waitingHosts', c) # sessions[c].host
       /\ (last'.op = "connect_to_host" /\ ~Has(waitingHosts, last'.code)) =>
                /\ sent' = <<[to |-> last'.ws,
                              frame |-> [type |-> "connection_failed"]]>>
                /\ sessions' = sessions
      ]_vars

\* C12: a socket's role changes at most once, from null to host or client; a
\* register_host or connect_to_host from a socket that already has a role
\* changes neither its role nor its sessionCode nor the maps.
C12_RolesAreOneWay ==
    [][\A w \in Conns :
        role[w] # Null =>
            /\ role'[w] = role[w]
            /\ sessionCode'[w] = sessionCode[w]
            /\ (last'.op \in {"register_host", "connect_to_host"} /\ last'.ws = w)
                 => (waitingHosts' = waitingHosts /\ sessions' = sessions)
      ]_vars

\* C15: a socket whose 'close' event has been handled (transport closed,
\* teardown run) is neither a value of waitingHosts nor the host or client of
\* a session.
C15_NoTornDownSocketInRegistry ==
    \A w \in Conns :
        readyState[w] = "CLOSED" => InNoEntry(waitingHosts, sessions, w)

\* C16: after the close of the client of the session under c the host, if
\* open, has been sent peer_disconnected and c is a key of neither map; after
\* the close of the waiting host of c, c is a key of neither map; and a
\* register_host from an unbound socket with a well-formed code that is a key
\* of neither map is answered registered.
C16_CodeFreeAfterTeardown ==
    [][/\ \A c \in DOMAIN sessions :
            (last'.op = "close" /\ last'.ws = sessions[c].client) =>
                /\ IsOpen(readyState, sessions[c].host)
                     => \E i \in 1..Len(sent') :
                            sent'[i] = PeerDisconnectedTo(sessions[c].host)
                /\ c \notin DOMAIN waitingHosts'
                /\ c \notin DOMAIN sessions'
       /\ \A c \in DOMAIN waitingHosts :
            (last'.op = "close" /\ last'.ws = waitingHosts[c]) =>
                /\ c \notin DOMAIN waitingHosts'
                /\ c \notin DOMAIN sessions'
       /\ (/\ last'.op = "register_host"
           /\ last'.code \in ValidCodes
           /\ role[last'.ws] = Null
           /\ last'.code \notin DOMAIN waitingHosts
           /\ last'.code \notin DOMAIN sessions) =>
                /\ sent' = <<[to |-> last'.ws,
                              frame |-> [type |-> "registered",
                                         code |-> last'.code]]>>
                /\ Get(waitingHosts', last'.code) = last'.ws
      ]_vars

\* C17: a connect_to_host that races the teardown of the waiting host either
\* fails and leaves no new session, or forms the pair, and the host's
\* teardown then removes the session and sends the client peer_disconnected;
\* once a host's teardown has run no session entry names that host.
C17_ConnectRacingTeardown ==
    [][/\ \A h \in Conns :
            tornDown'[h] => \A c \in DOMAIN sessions' : sessions'[c].host # h
       /\ last'.op = "connect_to_host" =>
            \/ /\ sent' = <<[to |-> last'.ws,
                             frame |-> [type |-> "connection_failed"]]>>
               /\ sessions' = sessions
            \/ /\ Has(waitingHosts, last'.code)
               /\ Has(sessions', last'.code)
               /\ sessions'[last'.code] =
                      [host |-> waitingHosts[last'.code], client |-> last'.ws]
       /\ \A c \in DOMAIN sessions :
            (last'.op = "close" /\ last'.ws = sessions[c].host) =>
                /\ c \notin DOMAIN sessions'
                /\ IsOpen(readyState, sessions[c].client)
                     => sent' = <<PeerDisconnectedTo(sessions[c].client)>>
      ]_vars

\* C19: the socket stored in waitingHosts[c] has role host and sessionCode c;
\* for sessions[c] = (h, k), h has role host, k has role client, h # k and
\* both have sessionCode c; no socket is in more than one registry entry.
C19_RegistryAgreesWithSockets ==
    /\ \A c \in DOMAIN waitingHosts :
          /\ role[waitingHosts[c]] = "host"
          /\ sessionCode[waitingHosts[c]] = c
    /\ \A c \in DOMAIN sessions :
          /\ role[sessions[c].host] = "host"
          /\ role[sessions[c].client] = "client"
          /\ sessions[c].host # sessions[c].client
          /\ sessionCode[sessions[c].host] = c
          /\ sessionCode[sessions[c].client] = c
    /\ \A w \in Conns :
          Cardinality({c \in DOMAIN waitingHosts : waitingHosts[c] = w})
            + Cardinality({c \in DOMAIN sessions : MemberOf(sessions[c], w)}) <= 1

\* the number of peer_disconnected frames of out addressed to socket w
CountPeerDisconnected(out, w) ==
    Cardinality({i \in 1..Len(out) : out[i] = PeerDisconnectedTo(w)})

\* C13: a socket that a sweep probed and that sent no pong since is closed by
\* the next sweep, and its teardown takes effect exactly once: after that
\* sweep it is in no entry of either map and each open socket it shared a
\* session with has been sent exactly one peer_disconnected; the 'close'
\* event that follows changes neither and sends the peer nothing more.
C13_LivenessEviction ==
    [][/\ last'.op = "sweep" =>
            /\ \A w \in Clients(readyState) :
                  probed[w] => (w \in last'.evicted /\ ~IsOpen(readyState', w))
            /\ \A w \in last'.evicted :
                  /\ InNoEntry(waitingHosts', sessions', w)
                  /\ \A v \in PeersOf(sessions, w) \ last'.evicted :
                        IsOpen(readyState, v)
                          => CountPeerDisconnected(sent', v) = 1
       /\ \A w \in Conns :
            (last'.op = "close" /\ last'.ws = w /\ tornDown[w]) =>
                /\ InNoEntry(waitingHosts', sessions', w)
                /\ pairedWith[w] # 0
                     => CountPeerDisconnected(sent', pairedWith[w]) = 0
      ]_vars

\* C14: a sweep closes a socket only if an earlier sweep probed it and no pong
\* has arrived from it since; in particular not on the first sweep after the
\* socket was accepted, and never a socket that answers every probe.
C14_NoEarlyEviction ==
    [][last'.op = "sweep" =>
        \A w \in Conns :
            (w \in last'.evicted
               \/ (IsOpen(readyState, w) /\ ~IsOpen(readyState', w)))
            => probed[w]
      ]_vars

\* a sweep has just evicted a socket that missed a probe and spared an open
\* one, which it probed instead
C14_Witness ==
    /\ last.op = "sweep"
    /\ last.evicted # {}
    /\ \E v \in Conns \ last.evicted : IsOpen(readyState, v) /\ probed[v]

\* C20: every open socket that was told it is paired and has not been sent
\* peer_disconnected since is a member of a session whose other member is the
\* socket it was paired with.
C20_NoOrphanedPairing ==
    \A w \in Conns :
        (IsOpen(readyState, w) /\ pairedWith[w] # 0 /\ ~peerGone[w]) =>
            \E c \in DOMAIN sessions :
                \/ sessions[c] = [host |-> w, client |-> pairedWith[w]]
                \/ sessions[c] = [host |-> pairedWith[w], client |-> w]

\* C18: a teardown of socket w alone (its 'close', or a sweep that evicts
\* only w) with a code c in w.sessionCode leaves waitingHosts[c] in place
\* when another socket waits under c, and when w itself waits under c it
\* removes that entry, leaves sessions as it was and sends no frame
C18_WaitingRemovalIdentityChecked ==
    [][\A w \in Conns :
          ( /\ \/ (last'.op = "close" /\ last'.ws = w)
               \/ (last'.op = "sweep" /\ last'.evicted = {w})
            /\ sessionCode[w] \notin {Null, ""} )
          => LET c == sessionCode[w] IN
             /\ (Has(waitingHosts, c) /\ waitingHosts[c] # w)
                  => (Has(waitingHosts', c) /\ waitingHosts'[c] = waitingHosts[c])
             /\ Get(waitingHosts, c) = w
                  => /\ waitingHosts' = Delete(waitingHosts, c)
                     /\ sessions' = sessions
                     /\ DataFrames(sent') = {}
      ]_vars

====
